---- MODULE Spec2Model ----
(***************************************************************************)
(* Allergy Alert: the allergy intake form, the profile context with its    *)
(* client-side storage, and the restaurant safety lookup of the dashboard. *)
(*                                                                         *)
(* A JavaScript string is a sequence of one-character strings, so that     *)
(* trim(), length and the regular expressions are computed on characters.  *)
(* Error messages, routes and other literals are TLA+ strings.             *)
(***************************************************************************)
EXTENDS Integers, Sequences, FiniteSets, TLC

VARIABLES
    \* allergyForm/page.tsx: the component state of AllergyForm
    formData,        \* [name, email, emergencyContact]
    allergyFields,   \* sequence of [value, error]; a field's id is its position
    formErrors,      \* [name, email, emergencyContact, allergies]
    isSubmitting,
    \* contexts/AllergyContext.tsx: AllergyProvider
    userProfile,     \* NULL or [name, email, emergencyContact, allergies, submittedAt]
    storage,         \* localStorage entry under STORAGE_KEY: NULL (absent) or a text
    \* the router: the page that is mounted
    route,
    \* dashboard/page.tsx: the restaurant lookup state of Dashboard
    showRestaurantLookup,
    showPictureUpload,
    restaurantName,
    isProcessing,
    error,
    menuData,
    showResults,
    selectedFile,    \* NULL or the file picked in the picture panel
    \* modules/aiFunctions.mjs and the hosted completion service
    env,             \* [apiKey, endpoint]: which settings are configured
    moduleLoaded,    \* the module body of aiFunctions.mjs has been evaluated
    pending,         \* the dashboard's completion requests in flight (a number)
    externalCalls,   \* requests sent to the completion service so far
    lookups,         \* lookups started with a non-empty trimmed restaurant name
    lastCaught,      \* what the catch block of validateAndProceed last caught
    request,         \* NULL or the arguments and allergy text of the last request sent
    \* components/AllergyForm.js: the component state of the earlier form
    allergies,       \* sequence of texts
    errors,          \* sequence of messages, one per field that was edited
    \* App.js and OptionsPage.js: the mounted page and the entry 'userAllergies'
    legacyRoute,     \* "/" (AllergyForm) or "/options" (OptionsPage)
    legacyStorage,   \* localStorage entry 'userAllergies': NULL (absent) or a text
    \* modules/client.ts: the ApiClient call in progress and its promise
    call,
    \* contexts/AllergyContext.tsx: the effects of a mount of the provider
    mount            \* [phase, queued, stored]

formVars == <<formData, allergyFields, formErrors, isSubmitting>>
providerVars == <<userProfile, storage>>
dashVars == <<showRestaurantLookup, showPictureUpload, restaurantName, isProcessing, error, menuData, showResults, selectedFile>>
aiVars == <<env, moduleLoaded, pending, externalCalls, lookups, lastCaught, request>>
legacyVars == <<allergies, errors, legacyRoute, legacyStorage>>
clientVars == <<call>>
appVars == <<formVars, providerVars, route, dashVars, aiVars, mount>>
vars == <<formData, allergyFields, formErrors, isSubmitting, userProfile, storage,
          route, showRestaurantLookup, showPictureUpload, restaurantName,
          isProcessing, error,
          menuData, showResults, selectedFile, env, moduleLoaded, pending, externalCalls,
          lookups, lastCaught, request, allergies, errors, legacyRoute,
          legacyStorage, call, mount>>

\* null and undefined: a record, so that it compares with records
NULL == [null |-> TRUE]

\* A JavaScript array as a value: a record, so that it compares with NULL
Array(list) == [items |-> list]

-----------------------------------------------------------------------------
(* Bounds of the model                                                     *)

MaxFields == 2       \* allergy entry fields the form may grow to
MaxLookups == 2      \* lookups started on the dashboard, per document
MaxFoods == 1        \* food items in a lookup response
MaxAllergyLen == 3   \* characters typed into an allergy field
MaxEmailLen == 5     \* characters typed into the email field
MaxCalls == 2        \* ApiClient calls made one after the other
MaxAllergies == 2    \* entries of the allergies argument of a request

-----------------------------------------------------------------------------
(* Characters and strings                                                  *)

Letters == {"a", "b", "c", "P", "e", "n", "u", "t", "s"}
Whitespace == {" "}

EmptyStr == <<>>
Peanuts == <<"P", "e", "a", "n", "u", "t", "s">>

RECURSIVE TrimStart(_)
TrimStart(s) ==
    IF s # <<>> /\ Head(s) \in Whitespace THEN TrimStart(Tail(s)) ELSE s

RECURSIVE TrimEnd(_)
TrimEnd(s) ==
    IF s # <<>> /\ s[Len(s)] \in Whitespace
    THEN TrimEnd(SubSeq(s, 1, Len(s) - 1))
    ELSE s

\* String.prototype.trim
Trim(s) == TrimEnd(TrimStart(s))

\* /^[a-zA-Z\s]+$/.test(value)
LettersAndSpacesOnly(value) ==
    /\ Len(value) >= 1
    /\ \A i \in 1..Len(value) : value[i] \in Letters \cup Whitespace

\* Variant: /^[^\s@]+@[^\s@]+$/, the dot is not asked for
EmailRegex_NoDot(value) ==
    \E i \in 2..(Len(value) - 1) :
        /\ value[i] = "@"
        /\ \A k \in 1..Len(value) : k # i => value[k] \notin Whitespace \cup {"@"}

\* /^[^\s@]+@[^\s@]+\.[^\s@]+$/.test(value)
EmailRegex(value) ==
    \E i \in 2..Len(value) :
        /\ value[i] = "@"
        /\ \A k \in 1..Len(value) : k # i => value[k] \notin Whitespace \cup {"@"}
        /\ \E j \in (i + 2)..(Len(value) - 1) : value[j] = "."

-----------------------------------------------------------------------------
(* allergyForm/page.tsx: validation                                        *)

NoError == ""
ErrRequired == "This field is required"
ErrLettersOnly == "Only letters and spaces are allowed"
ErrTooShort == "Allergy name must be at least 2 characters long"
ErrNameRequired == "Name is required"
ErrEmailRequired == "Email is required"
ErrEmailInvalid == "Please enter a valid email address"
ErrNoAllergy == "At least one allergy must be provided"

\* Variant: the letters-and-spaces test is left out
validateAllergyInput_NoRegex(value) ==
    IF Trim(value) = EmptyStr THEN ErrRequired
    ELSE IF Len(value) < 2 THEN ErrTooShort
    ELSE NoError

validateAllergyInput(value) ==
    IF Trim(value) = EmptyStr THEN ErrRequired
    ELSE IF ~LettersAndSpacesOnly(value) THEN ErrLettersOnly
    ELSE IF Len(value) < 2 THEN ErrTooShort
    ELSE NoError

validateName(value) ==
    IF Trim(value) = EmptyStr THEN ErrNameRequired
    ELSE IF ~LettersAndSpacesOnly(value) THEN ErrLettersOnly
    ELSE NoError

validateEmail(value) ==
    IF Trim(value) = EmptyStr THEN ErrEmailRequired
    ELSE IF ~EmailRegex(value) THEN ErrEmailInvalid
    ELSE NoError

\* validateAllFields: the allergy fields with their errors recomputed
UpdatedAllergyFields(fields) ==
    [i \in 1..Len(fields) |->
        [fields[i] EXCEPT !.error = validateAllergyInput(fields[i].value)]]

\* field => field.value.trim() && !field.error
IsValidEntry(field) == Trim(field.value) # EmptyStr /\ field.error = NoError

\* Variant: an entry counts as soon as it is non-blank, whatever its error
hasValidAllergy_AnyNonBlank(fields) ==
    \E i \in 1..Len(fields) : Trim(fields[i].value) # EmptyStr

hasValidAllergy(fields) == \E i \in 1..Len(fields) : IsValidEntry(fields[i])

\* validateAllFields: the form errors it sets
NewFormErrors(fd, fields) ==
    [name |-> validateName(fd.name),
     email |-> validateEmail(fd.email),
     emergencyContact |-> NoError,
     allergies |-> IF hasValidAllergy(UpdatedAllergyFields(fields))
                   THEN NoError ELSE ErrNoAllergy]

\* Variant: the email error is not taken into account
validateAllFields_SkipsEmail(fd, fields) ==
    LET updated == UpdatedAllergyFields(fields)
    IN  /\ \A i \in 1..Len(updated) : updated[i].error = NoError
        /\ \E i \in 1..Len(updated) :
                Trim(updated[i].value) # EmptyStr /\ updated[i].error = NoError
        /\ validateName(fd.name) = NoError

\* validateAllFields: the boolean it returns
validateAllFields(fd, fields) ==
    LET updated == UpdatedAllergyFields(fields)
        errs == NewFormErrors(fd, fields)
    IN  /\ \A i \in 1..Len(updated) : updated[i].error = NoError
        /\ hasValidAllergy(updated)
        /\ errs.name = NoError
        /\ errs.email = NoError

\* handleSubmit: validAllergies, computed from the allergyFields of the render
\* the handler closed over (setAllergyFields has not taken effect yet)
ValidAllergies(fields) ==
    LET kept == SelectSeq(fields, IsValidEntry)
    IN  [i \in 1..Len(kept) |-> Trim(kept[i].value)]

\* Variant: the form data is spread into the profile as typed
SubmissionData_Untrimmed(fd, fields, t) ==
    [name |-> fd.name,
     email |-> fd.email,
     emergencyContact |-> fd.emergencyContact,
     allergies |-> [i \in 1..Len(fields) |-> Trim(fields[i].value)],
     submittedAt |-> t]

\* handleSubmit: submissionData
SubmissionData(fd, fields, t) ==
    [name |-> Trim(fd.name),
     email |-> Trim(fd.email),
     emergencyContact |-> Trim(fd.emergencyContact),
     allergies |-> ValidAllergies(fields),
     submittedAt |-> t]

-----------------------------------------------------------------------------
(* contexts/AllergyContext.tsx: the provider and its storage entry         *)

\* JSON.stringify(userProfile): a text that parses back to the profile
JSONStringify(profile) == [kind |-> "json", value |-> profile]

\* The load effect: the profile it passes to setUserProfileState, or NULL when
\* nothing is stored or JSON.parse throws (the state then stays null)
LoadEffect(stored) ==
    IF stored # NULL /\ stored.kind = "json" THEN stored.value ELSE NULL

\* The save effect: the storage entry it leaves for the rendered profile
SaveEffect(profile) ==
    IF profile # NULL THEN JSONStringify(profile) ELSE NULL

\* userProfile?.allergies || []
UserAllergies(profile) == IF profile = NULL THEN <<>> ELSE profile.allergies

isProfileComplete(profile) ==
    /\ profile # NULL
    /\ profile.name # EmptyStr
    /\ profile.email # EmptyStr
    /\ Len(profile.allergies) > 0

\* setUserProfile, followed by the save effect of the next render
setUserProfile(profile) ==
    /\ userProfile' = profile
    /\ storage' = SaveEffect(profile)
    /\ UNCHANGED <<formVars, route, dashVars, aiVars, legacyVars, clientVars, mount>>

\* updateAllergies: nothing without a profile. t is new Date().toISOString().
updateAllergies(list, t) ==
    /\ userProfile' =
            IF userProfile # NULL
            THEN [userProfile EXCEPT !.allergies = list, !.submittedAt = t]
            ELSE userProfile
    /\ storage' = SaveEffect(userProfile')
    /\ UNCHANGED <<formVars, route, dashVars, aiVars, legacyVars, clientVars, mount>>

\* Variant: clearing the profile leaves the storage entry in place
clearProfile_KeepsEntry ==
    /\ userProfile' = NULL
    /\ UNCHANGED storage
    /\ UNCHANGED <<formVars, route, dashVars, aiVars, legacyVars, clientVars, mount>>

clearProfile ==
    /\ userProfile' = NULL
    /\ storage' = SaveEffect(NULL)
    /\ UNCHANGED <<formVars, route, dashVars, aiVars, legacyVars, clientVars, mount>>

\* The mount of the provider, effect by effect.  mount.phase is the point the
\* mount has reached, mount.queued the profile the load effect has passed to
\* setUserProfileState, mount.stored the entry that was stored at the mount.
Settled == [phase |-> "settled", queued |-> NULL, stored |-> NULL]

\* The first render: useState(null), with no effect run yet
ProviderMount ==
    /\ mount.phase = "settled"
    /\ userProfile' = NULL
    /\ mount' = [phase |-> "rendered", queued |-> NULL, stored |-> storage]
    /\ UNCHANGED <<storage, formVars, route, dashVars, aiVars, legacyVars, clientVars>>

\* The load effect (the first effect of the component): it reads the entry
\* and queues the state update
ProviderLoadEffect ==
    /\ mount.phase = "rendered"
    /\ mount' = [mount EXCEPT !.phase = "loaded", !.queued = LoadEffect(storage)]
    /\ UNCHANGED <<providerVars, formVars, route, dashVars, aiVars, legacyVars, clientVars>>

\* Variant: the save effect runs at the mount only, as with no dependencies
ProviderSaveEffect_MountOnly ==
    /\ mount.phase \in {"loaded", "rerendered"}
    /\ storage' = IF mount.phase = "loaded" THEN SaveEffect(userProfile) ELSE storage
    /\ mount' = IF mount.phase = "loaded" THEN [mount EXCEPT !.phase = "saved"]
                ELSE Settled
    /\ UNCHANGED <<userProfile, formVars, route, dashVars, aiVars, legacyVars, clientVars>>

\* The save effect, with the profile of the render it belongs to: after the
\* first render (the profile is null) and after the render of the loaded profile
ProviderSaveEffect ==
    /\ mount.phase \in {"loaded", "rerendered"}
    /\ storage' = SaveEffect(userProfile)
    /\ mount' = IF mount.phase = "loaded" THEN [mount EXCEPT !.phase = "saved"]
                ELSE Settled
    /\ UNCHANGED <<userProfile, formVars, route, dashVars, aiVars, legacyVars, clientVars>>

\* The render of the queued update; with nothing queued the state has not
\* changed and no effect runs again
ProviderRerender ==
    /\ mount.phase = "saved"
    /\ IF mount.queued # NULL
       THEN /\ userProfile' = mount.queued
            /\ mount' = [mount EXCEPT !.phase = "rerendered", !.queued = NULL]
       ELSE /\ mount' = Settled
            /\ UNCHANGED userProfile
    /\ UNCHANGED <<storage, formVars, route, dashVars, aiVars, legacyVars, clientVars>>

-----------------------------------------------------------------------------
(* allergyForm/page.tsx: component state                                   *)

\* The useState initialisers of AllergyForm, for the userProfile the context
\* gives at the first render of the component
FormInitialState(profile) ==
    [formData |->
        [name |-> IF profile = NULL THEN EmptyStr ELSE profile.name,
         email |-> IF profile = NULL THEN EmptyStr ELSE profile.email,
         emergencyContact |->
            IF profile = NULL THEN EmptyStr ELSE profile.emergencyContact],
     allergyFields |->
        IF Len(UserAllergies(profile)) > 0
        THEN [i \in 1..Len(profile.allergies) |->
                [value |-> profile.allergies[i], error |-> NoError]]
        ELSE <<[value |-> EmptyStr, error |-> NoError]>>,
     formErrors |->
        [name |-> NoError, email |-> NoError,
         emergencyContact |-> NoError, allergies |-> NoError],
     isSubmitting |-> FALSE]

\* The ids of the fields ('1', '2', ... of the initial fields and the
\* crypto.randomUUID() of an added one) are unique keys that are only compared
\* for equality: a handler's id argument is the position, in the rendered
\* list, of the one field that carries it.
FieldIds(fields) == 1..Len(fields)

FormMounted == route = "/allergyForm"

SetForm(st) ==
    /\ formData' = st.formData
    /\ allergyFields' = st.allergyFields
    /\ formErrors' = st.formErrors
    /\ isSubmitting' = st.isSubmitting

\* The state of the dashboard's lookup panel at mount
DashInitialState ==
    [showRestaurantLookup |-> FALSE, showPictureUpload |-> FALSE,
     restaurantName |-> EmptyStr,
     isProcessing |-> FALSE, error |-> NoError, menuData |-> NULL,
     showResults |-> FALSE, selectedFile |-> NULL]

SetDash(st) ==
    /\ showRestaurantLookup' = st.showRestaurantLookup
    /\ showPictureUpload' = st.showPictureUpload
    /\ restaurantName' = st.restaurantName
    /\ isProcessing' = st.isProcessing
    /\ error' = st.error
    /\ menuData' = st.menuData
    /\ showResults' = st.showResults
    /\ selectedFile' = st.selectedFile

-----------------------------------------------------------------------------
(* allergyForm/page.tsx: handlers                                          *)

handleFormDataChange(name, value) ==
    /\ FormMounted
    /\ formData' = [formData EXCEPT ![name] = value]
    /\ formErrors' = [formErrors EXCEPT ![name] =
            IF name = "name" THEN validateName(value)
            ELSE IF name = "email" THEN validateEmail(value)
            ELSE NoError]
    /\ UNCHANGED <<allergyFields, isSubmitting, providerVars, route, dashVars, aiVars, legacyVars, clientVars, mount>>

handleAllergyChange(id, value) ==
    /\ FormMounted
    /\ id \in FieldIds(allergyFields)
    /\ allergyFields' =
        [i \in 1..Len(allergyFields) |->
            IF i = id
            THEN [allergyFields[i] EXCEPT
                    !.value = value, !.error = validateAllergyInput(value)]
            ELSE allergyFields[i]]
    /\ UNCHANGED <<formData, formErrors, isSubmitting, providerVars, route, dashVars, aiVars, legacyVars, clientVars, mount>>

addAllergyField ==
    /\ FormMounted
    /\ Len(allergyFields) < MaxFields
    /\ allergyFields' = Append(allergyFields,
            [value |-> EmptyStr, error |-> NoError])
    /\ UNCHANGED <<formData, formErrors, isSubmitting, providerVars, route, dashVars, aiVars, legacyVars, clientVars, mount>>

\* Variant: the field is removed whatever the number of fields
RemoveField_NoGuard(fields, id) ==
    SubSeq(fields, 1, id - 1) \o SubSeq(fields, id + 1, Len(fields))

\* prev.filter(field => field.id !== id), when more than one field is left
RemoveField(fields, id) ==
    IF Len(fields) > 1
    THEN SubSeq(fields, 1, id - 1) \o SubSeq(fields, id + 1, Len(fields))
    ELSE fields

removeAllergyField(id) ==
    /\ FormMounted
    /\ id \in FieldIds(allergyFields)
    /\ allergyFields' = RemoveField(allergyFields, id)
    /\ UNCHANGED <<formData, formErrors, isSubmitting, providerVars, route, dashVars, aiVars, legacyVars, clientVars, mount>>

\* Variant: a rejected submission leaves isSubmitting set
handleSubmit_KeepsSubmitting(t) ==
    /\ FormMounted
    /\ ~isSubmitting
    /\ allergyFields' = UpdatedAllergyFields(allergyFields)
    /\ formErrors' = NewFormErrors(formData, allergyFields)
    /\ isSubmitting' = TRUE
    /\ IF validateAllFields(formData, allergyFields)
       THEN /\ userProfile' = SubmissionData(formData, allergyFields, t)
            /\ storage' = SaveEffect(userProfile')
       ELSE UNCHANGED <<userProfile, storage>>
    /\ UNCHANGED <<formData, route, dashVars, aiVars, legacyVars, clientVars, mount>>

\* handleSubmit up to its await: validation, and on success setUserProfile
\* followed by the provider's save effect. t is new Date().toISOString().
handleSubmit(t) ==
    /\ FormMounted
    /\ ~isSubmitting                     \* the submit button is disabled meanwhile
    /\ allergyFields' = UpdatedAllergyFields(allergyFields)
    /\ formErrors' = NewFormErrors(formData, allergyFields)
    /\ IF validateAllFields(formData, allergyFields)
       THEN /\ isSubmitting' = TRUE
            /\ userProfile' = SubmissionData(formData, allergyFields, t)
            /\ storage' = SaveEffect(userProfile')
       ELSE /\ isSubmitting' = FALSE
            /\ UNCHANGED <<userProfile, storage>>
    /\ UNCHANGED <<formData, route, dashVars, aiVars, legacyVars, clientVars, mount>>

-----------------------------------------------------------------------------
(* components/AllergyForm.js: the earlier form, an application of its own  *)

\* /^[a-zA-Z\s]*$/.test(value)
lettersOnlyRegex(value) ==
    \A i \in 1..Len(value) : value[i] \in Letters \cup Whitespace

\* newErrors[index] = message on a copy of errors, which may be one shorter
\* than the list of fields (index is the position, from 1)
SetError(errs, index, message) ==
    IF index <= Len(errs) THEN [errs EXCEPT ![index] = message]
    ELSE Append(errs, message)

\* App.js: AllergyForm is the element of the route "/"
AllergyFormJsMounted == legacyRoute = "/"

AllergyFormJs_handleAllergyChange(index, value) ==
    /\ AllergyFormJsMounted
    /\ index \in 1..Len(allergies)
    /\ IF lettersOnlyRegex(value)
       THEN /\ allergies' = [allergies EXCEPT ![index] = value]
            /\ errors' = SetError(errors, index, NoError)
       ELSE /\ errors' = SetError(errors, index, ErrLettersOnly)
            /\ UNCHANGED allergies
    /\ UNCHANGED <<legacyRoute, legacyStorage, appVars, clientVars>>

AllergyFormJs_addAllergyField ==
    /\ AllergyFormJsMounted
    /\ Len(allergies) < MaxFields
    /\ allergies' = Append(allergies, EmptyStr)
    /\ errors' = Append(errors, NoError)
    /\ UNCHANGED <<legacyRoute, legacyStorage, appVars, clientVars>>

\* list.filter((_, i) => i !== index)
FilterIndex(list, index) ==
    SubSeq(list, 1, index - 1) \o SubSeq(list, index + 1, Len(list))

AllergyFormJs_removeAllergyField(index) ==
    /\ AllergyFormJsMounted
    /\ index \in 1..Len(allergies)
    /\ IF Len(allergies) > 1
       THEN /\ allergies' = FilterIndex(allergies, index)
            /\ errors' = FilterIndex(errors, index)
       ELSE UNCHANGED <<allergies, errors>>
    /\ UNCHANGED <<legacyRoute, legacyStorage, appVars, clientVars>>

\* allergies.filter(allergy => allergy.trim() !== '')
RECURSIVE validAllergies(_)
validAllergies(list) ==
    IF list = <<>> THEN <<>>
    ELSE (IF Trim(Head(list)) # EmptyStr THEN <<Head(list)>> ELSE <<>>)
            \o validAllergies(Tail(list))

\* errors.some(error => error !== '')
hasErrors(errs) == \E i \in 1..Len(errs) : errs[i] # NoError

\* useState(['']) and useState([]): the state of a form that is mounted
AllergyFormJsInitialState == [allergies |-> <<EmptyStr>>, errors |-> <<>>]

\* A mount of AllergyForm: both lists start from their useState arguments,
\* and nothing reads 'userAllergies'
MountAllergyFormJs ==
    /\ allergies' = AllergyFormJsInitialState.allergies
    /\ errors' = AllergyFormJsInitialState.errors

\* handleSubmit: both alerts return early; otherwise the entries that are
\* not blank are stored and the options page is mounted
AllergyFormJs_handleSubmit ==
    /\ AllergyFormJsMounted
    /\ IF Len(validAllergies(allergies)) = 0 \/ hasErrors(errors)
       THEN UNCHANGED <<legacyRoute, legacyStorage>>
       ELSE /\ legacyStorage' = JSONStringify(Array(validAllergies(allergies)))
            /\ legacyRoute' = "/options"
    /\ UNCHANGED <<allergies, errors, appVars, clientVars>>

\* OptionsPage: what its effect puts into its allergies state
OptionsPageAllergies ==
    IF legacyStorage # NULL THEN legacyStorage.value.items ELSE <<>>

\* OptionsPage.goBack ("Go Back to Edit Allergies"): navigate('/') mounts
\* AllergyForm anew
OptionsPage_goBack ==
    /\ legacyRoute = "/options"
    /\ legacyRoute' = "/"
    /\ MountAllergyFormJs
    /\ UNCHANGED <<legacyStorage, appVars, clientVars>>

-----------------------------------------------------------------------------
(* modules/aiFunctions.mjs                                                 *)

MissingApiKey == "Missing required environment variable: AZURE_OPENAI_API_KEY"
MissingEndpoint == "Missing required environment variable: AZURE_OPENAI_ENDPOINT"
TransportFailure == "the completion request failed"

\* getSafeFoodsByRestaurantName: the Error it throws before building the
\* client, or NoError when apiKey and endpoint are both set
ConfigError(e) ==
    IF ~e.apiKey THEN MissingApiKey
    ELSE IF ~e.endpoint THEN MissingEndpoint
    ELSE NoError

\* Array.prototype.join
RECURSIVE Join(_, _)
Join(list, separator) ==
    IF Len(list) = 0 THEN EmptyStr
    ELSE IF Len(list) = 1 THEN list[1]
    ELSE Join(SubSeq(list, 1, Len(list) - 1), separator)
            \o separator \o list[Len(list)]

CommaSpace == <<",", " ">>
NoAllergiesText ==
    <<"n", "o", " ", "s", "p", "e", "c", "i", "f", "i", "c", " ",
      "a", "l", "l", "e", "r", "g", "i", "e", "s", " ",
      "m", "e", "n", "t", "i", "o", "n", "e", "d">>

\* Variant: the list is joined whatever its length
allergiesList_AlwaysJoined(arg) ==
    IF arg # NULL THEN Join(arg.items, CommaSpace) ELSE NoAllergiesText

\* allergiesList: the allergy text of the prompt, for the allergies argument
\* (NULL when it is null or undefined)
allergiesList(arg) ==
    IF arg # NULL /\ Len(arg.items) > 0 THEN Join(arg.items, CommaSpace)
    ELSE NoAllergiesText

\* What a call of client.chat.completions.create carries of the arguments
RequestFor(name, arg) ==
    [restaurantName |-> name, allergies |-> arg,
     allergiesList |-> allergiesList(arg)]

McDonalds == <<"M", "c", "D", "o", "n", "a", "l", "d", "'", "s">>
Shellfish == <<"s", "h", "e", "l", "l", "f", "i", "s", "h">>
ExampleRequest ==
    RequestFor(McDonalds, Array(<<<<"p", "e", "a", "n", "u", "t", "s">>, Shellfish>>))

\* A call of getSafeFoodsByRestaurantName by another caller of the module,
\* as the example at the end of the file is one: the request it sends
getSafeFoodsByRestaurantName(name, arg) ==
    /\ moduleLoaded
    /\ ConfigError(env) = NoError
    /\ externalCalls <= MaxLookups
    /\ externalCalls' = externalCalls + 1
    /\ request' = RequestFor(name, arg)
    /\ UNCHANGED <<env, moduleLoaded, pending, lookups, lastCaught,
                   formVars, providerVars, route, dashVars, legacyVars, clientVars, mount>>

\* Requests the module body sends when it is evaluated: the example call at
\* the end of the file, whose rejection is caught and logged
ExampleUsageCalls(e) == IF ConfigError(e) = NoError THEN 1 ELSE 0

\* The pages that import the module
ImportsAiFunctions(r) == r \in {"/dashboard", "/menuInput"}

-----------------------------------------------------------------------------
(* Navigation                                                              *)

Routes == {"/", "/allergyForm", "/menuInput", "/dashboard"}

\* menuInput/page.tsx, the redirect effect: where the router ends up when
\* MenuInput is rendered with the given profile
MenuInputRedirect(profile) ==
    IF Len(UserAllergies(profile)) = 0 THEN "/allergyForm" ELSE "/menuInput"

\* A document load of route r (a typed URL, a reload, window.location.href):
\* every component state is created anew. The provider renders first with a
\* null profile, which is what the page's own useState initialisers and mount
\* effects see; then its load effect reads the storage entry, its save effect
\* runs for the null profile and again for the loaded one.
PageLoad(r) ==
    LET loaded == LoadEffect(storage)
        target == IF r = "/menuInput" THEN MenuInputRedirect(NULL) ELSE r
    IN  /\ userProfile' = loaded
        /\ storage' = SaveEffect(loaded)
        /\ route' = target
        \* the form of a redirect is rendered after the provider has loaded
        /\ SetForm(FormInitialState(IF target = r THEN NULL ELSE loaded))
        /\ SetDash(DashInitialState)
        /\ moduleLoaded' = ImportsAiFunctions(r)
        /\ externalCalls' = IF ImportsAiFunctions(r) THEN ExampleUsageCalls(env) ELSE 0
        /\ request' = IF ImportsAiFunctions(r) /\ ExampleUsageCalls(env) > 0
                      THEN ExampleRequest ELSE NULL
        /\ lookups' = 0
        /\ pending' = 0
        /\ lastCaught' = NoError
        /\ UNCHANGED <<env, legacyVars, clientVars, mount>>

\* A client-side navigation (router.push, <Link>): the provider keeps its
\* state and the page is rendered with the profile in memory
ClientNavigate(r) ==
    LET target == IF r = "/menuInput" THEN MenuInputRedirect(userProfile) ELSE r
        loads == ImportsAiFunctions(r) /\ ~moduleLoaded
    IN  /\ route' = target
        /\ SetForm(FormInitialState(IF target = "/allergyForm" THEN userProfile ELSE NULL))
        /\ SetDash(DashInitialState)
        /\ moduleLoaded' = (moduleLoaded \/ loads)
        /\ externalCalls' = externalCalls + (IF loads THEN ExampleUsageCalls(env) ELSE 0)
        /\ request' = IF loads /\ ExampleUsageCalls(env) > 0
                      THEN ExampleRequest ELSE request
        /\ pending' = 0
        /\ UNCHANGED <<providerVars, env, lookups, lastCaught, legacyVars, clientVars, mount>>

\* page.tsx: the "Get Protected" link of the landing page
GetProtected ==
    /\ route = "/"
    /\ ClientNavigate("/allergyForm")

\* handleSubmit after its await: router.push('/menuInput'), then the finally
SubmitResume ==
    /\ FormMounted
    /\ isSubmitting
    /\ ClientNavigate("/menuInput")

-----------------------------------------------------------------------------
(* dashboard/page.tsx: the restaurant lookup                               *)

ErrEnterName == "Please enter a restaurant name to check for allergens"
ErrParse == "Unable to parse response from AI service. Please try again."
ErrProcessing == "An error occurred while analyzing the menu. Please try again."

SafetyTags == {"More Safe", "Questionable", "Avoid"}

\* The text of the fallback literal '{"restaurantName": "", "foods": []}'
FallbackText ==
    [kind |-> "json", value |-> [restaurantName |-> EmptyStr, foods |-> <<>>]]

\* JSON.parse(text): the value, or a thrown SyntaxError
JSONParse(text) ==
    IF text.kind = "json"
    THEN [ok |-> TRUE, value |-> text.value]
    ELSE [ok |-> FALSE, value |-> NULL]

\* !aiResponse: null and the empty string are falsy
NullContent == [kind |-> "null"]
EmptyContent == [kind |-> "empty"]
Garbage == [kind |-> "garbage"]
IsFalsy(text) == text.kind \in {"null", "empty"}

\* menuData.foods.filter(food => food.safetyClassification === category)
CategoryFoods(menu, category) ==
    SelectSeq(menu.foods, LAMBDA food : food.safetyClassification = category)

DashMounted == route = "/dashboard"

\* Variant: the restaurant card leaves the picture panel as it is
handleCardClick_KeepsOtherPanel(cardId) ==
    /\ DashMounted
    /\ IF cardId = "restaurant-lookup" THEN
          IF Len(UserAllergies(userProfile)) = 0
          THEN PageLoad("/allergyForm")
          ELSE /\ UNCHANGED <<showPictureUpload, selectedFile>>
               /\ showRestaurantLookup' = ~showRestaurantLookup
               /\ error' = NoError
               /\ menuData' = NULL
               /\ showResults' = FALSE
               /\ restaurantName' =
                    IF ~showRestaurantLookup THEN EmptyStr ELSE restaurantName
               /\ UNCHANGED <<isProcessing, formVars, providerVars, route, aiVars, legacyVars, clientVars, mount>>
       ELSE IF cardId = "take-upload-picture" THEN
          IF Len(UserAllergies(userProfile)) = 0
          THEN PageLoad("/allergyForm")
          ELSE /\ showRestaurantLookup' = FALSE
               /\ restaurantName' =
                    IF showRestaurantLookup THEN EmptyStr ELSE restaurantName
               /\ menuData' = IF showRestaurantLookup THEN NULL ELSE menuData
               /\ showResults' = IF showRestaurantLookup THEN FALSE ELSE showResults
               /\ showPictureUpload' = ~showPictureUpload
               /\ selectedFile' = IF ~showPictureUpload THEN NULL ELSE selectedFile
               /\ error' = NoError
               /\ UNCHANGED <<isProcessing, formVars, providerVars, route, aiVars, legacyVars, clientVars, mount>>
       ELSE \* 'update-allergies': window.location.href = card.href
          PageLoad("/allergyForm")

handleCardClick(cardId) ==
    /\ DashMounted
    /\ IF cardId = "restaurant-lookup" THEN
          IF Len(UserAllergies(userProfile)) = 0
          THEN PageLoad("/allergyForm")
          ELSE /\ showPictureUpload' = FALSE
               /\ selectedFile' = IF showPictureUpload THEN NULL ELSE selectedFile
               /\ showRestaurantLookup' = ~showRestaurantLookup
               /\ error' = NoError
               /\ menuData' = NULL
               /\ showResults' = FALSE
               /\ restaurantName' =
                    IF ~showRestaurantLookup THEN EmptyStr ELSE restaurantName
               /\ UNCHANGED <<isProcessing, formVars, providerVars, route, aiVars, legacyVars, clientVars, mount>>
       ELSE IF cardId = "take-upload-picture" THEN
          IF Len(UserAllergies(userProfile)) = 0
          THEN PageLoad("/allergyForm")
          ELSE /\ showRestaurantLookup' = FALSE
               /\ restaurantName' =
                    IF showRestaurantLookup THEN EmptyStr ELSE restaurantName
               /\ menuData' = IF showRestaurantLookup THEN NULL ELSE menuData
               /\ showResults' = IF showRestaurantLookup THEN FALSE ELSE showResults
               /\ showPictureUpload' = ~showPictureUpload
               /\ selectedFile' = IF ~showPictureUpload THEN NULL ELSE selectedFile
               /\ error' = NoError
               /\ UNCHANGED <<isProcessing, formVars, providerVars, route, aiVars, legacyVars, clientVars, mount>>
       ELSE \* 'update-allergies': window.location.href = card.href
          PageLoad("/allergyForm")

handleTextInputChange(value) ==
    /\ DashMounted
    /\ showRestaurantLookup
    /\ restaurantName' = value
    /\ error' = NoError
    /\ UNCHANGED <<showRestaurantLookup, showPictureUpload, isProcessing, menuData,
                   showResults, selectedFile, formVars, providerVars, route, aiVars,
                   legacyVars, clientVars, mount>>

goBackToDashboard ==
    /\ DashMounted
    /\ showRestaurantLookup
    /\ showRestaurantLookup' = FALSE
    /\ restaurantName' = EmptyStr
    /\ error' = NoError
    /\ menuData' = NULL
    /\ showResults' = FALSE
    /\ UNCHANGED <<showPictureUpload, isProcessing, selectedFile, formVars,
                   providerVars, route, aiVars, legacyVars, clientVars, mount>>

goBackFromPictureUpload ==
    /\ DashMounted
    /\ showPictureUpload
    /\ showPictureUpload' = FALSE
    /\ selectedFile' = NULL
    /\ error' = NoError
    /\ UNCHANGED <<showRestaurantLookup, restaurantName, isProcessing, menuData,
                   showResults, formVars, providerVars, route, aiVars, legacyVars, clientVars, mount>>

ErrInvalidImage == "Please select a valid image file"
ErrFileTooLarge == "File size must be less than 10MB"
ErrSelectImage == "Please select or capture an image"
ErrPictureSoon == "Picture analysis is coming soon. Please use the Restaurant Lookup for now."

MaxFileSize == 10 * 1024 * 1024

\* String.prototype.startsWith
StartsWith(str, prefix) ==
    Len(str) >= Len(prefix) /\ SubSeq(str, 1, Len(prefix)) = prefix

ImagePrefix == <<"i", "m", "a", "g", "e", "/">>

\* The change event of the hidden file inputs, which the buttons of the
\* picture panel open; file is event.target.files[0]
handleFileSelect(file) ==
    /\ DashMounted
    /\ showPictureUpload
    /\ IF ~StartsWith(file.type, ImagePrefix)
       THEN error' = ErrInvalidImage /\ UNCHANGED selectedFile
       ELSE IF file.size > MaxFileSize
       THEN error' = ErrFileTooLarge /\ UNCHANGED selectedFile
       ELSE error' = NoError /\ selectedFile' = file
    /\ UNCHANGED <<showRestaurantLookup, showPictureUpload, restaurantName,
                   isProcessing, menuData, showResults, formVars, providerVars,
                   route, aiVars, legacyVars, clientVars, mount>>

\* The remove button of the preview: setSelectedFile(null)
RemoveSelectedFile ==
    /\ DashMounted
    /\ showPictureUpload
    /\ selectedFile # NULL
    /\ selectedFile' = NULL
    /\ UNCHANGED <<showRestaurantLookup, showPictureUpload, restaurantName,
                   isProcessing, error, menuData, showResults, formVars,
                   providerVars, route, aiVars, legacyVars, clientVars, mount>>

\* The action button of the picture panel
AnalyzePicture ==
    /\ DashMounted
    /\ showPictureUpload
    /\ ~isProcessing                     \* the button is disabled meanwhile
    /\ error' = IF selectedFile = NULL THEN ErrSelectImage ELSE ErrPictureSoon
    /\ UNCHANGED <<showRestaurantLookup, showPictureUpload, restaurantName,
                   isProcessing, menuData, showResults, selectedFile, formVars,
                   providerVars, route, aiVars, legacyVars, clientVars, mount>>

\* Variant: the restaurant name is tested without trim()
validateAndProceed_NoTrim ==
    /\ DashMounted
    /\ showRestaurantLookup
    /\ ~isProcessing                     \* the button is disabled meanwhile
    /\ lookups < MaxLookups
    /\ menuData' = NULL
    /\ showResults' = FALSE
    /\ IF restaurantName = EmptyStr
       THEN /\ error' = ErrEnterName
            /\ isProcessing' = FALSE
            /\ lastCaught' = NoError
            /\ UNCHANGED <<pending, externalCalls, lookups, request>>
       ELSE /\ lookups' = lookups + 1
            /\ IF ConfigError(env) # NoError
               THEN /\ lastCaught' = ConfigError(env)
                    /\ error' = ErrProcessing
                    /\ isProcessing' = FALSE
                    /\ UNCHANGED <<pending, externalCalls, request>>
               ELSE /\ lastCaught' = NoError
                    /\ error' = NoError
                    /\ isProcessing' = TRUE
                    /\ pending' = pending + 1
                    /\ externalCalls' = externalCalls + 1
                    /\ request' = RequestFor(Trim(restaurantName),
                                             Array(UserAllergies(userProfile)))
    /\ UNCHANGED <<showRestaurantLookup, showPictureUpload, restaurantName,
                   selectedFile, formVars, providerVars, route, env, moduleLoaded,
                   legacyVars, clientVars, mount>>

\* Variant: the button is not disabled while a lookup is processed
validateAndProceed_NeverDisabled ==
    /\ DashMounted
    /\ showRestaurantLookup
    /\ lookups < MaxLookups
    /\ menuData' = NULL
    /\ showResults' = FALSE
    /\ IF Trim(restaurantName) = EmptyStr
       THEN /\ error' = ErrEnterName
            /\ isProcessing' = FALSE
            /\ lastCaught' = NoError
            /\ UNCHANGED <<pending, externalCalls, lookups, request>>
       ELSE /\ lookups' = lookups + 1
            /\ IF ConfigError(env) # NoError
               THEN /\ lastCaught' = ConfigError(env)
                    /\ error' = ErrProcessing
                    /\ isProcessing' = FALSE
                    /\ UNCHANGED <<pending, externalCalls, request>>
               ELSE /\ lastCaught' = NoError
                    /\ error' = NoError
                    /\ isProcessing' = TRUE
                    /\ pending' = pending + 1
                    /\ externalCalls' = externalCalls + 1
                    /\ request' = RequestFor(Trim(restaurantName),
                                             Array(UserAllergies(userProfile)))
    /\ UNCHANGED <<showRestaurantLookup, showPictureUpload, restaurantName,
                   selectedFile, formVars, providerVars, route, env, moduleLoaded,
                   legacyVars, clientVars, mount>>

\* validateAndProceed up to its await. A rejection of
\* getSafeFoodsByRestaurantName for missing configuration reaches the outer
\* catch before any other event is handled.
validateAndProceed ==
    /\ DashMounted
    /\ showRestaurantLookup
    /\ ~isProcessing                     \* the button is disabled meanwhile
    /\ lookups < MaxLookups
    /\ menuData' = NULL
    /\ showResults' = FALSE
    /\ IF Trim(restaurantName) = EmptyStr
       THEN /\ error' = ErrEnterName
            /\ isProcessing' = FALSE
            /\ lastCaught' = NoError
            /\ UNCHANGED <<pending, externalCalls, lookups, request>>
       ELSE /\ lookups' = lookups + 1
            /\ IF ConfigError(env) # NoError
               THEN /\ lastCaught' = ConfigError(env)
                    /\ error' = ErrProcessing
                    /\ isProcessing' = FALSE
                    /\ UNCHANGED <<pending, externalCalls, request>>
               ELSE /\ lastCaught' = NoError
                    /\ error' = NoError
                    /\ isProcessing' = TRUE
                    /\ pending' = pending + 1
                    /\ externalCalls' = externalCalls + 1
                    /\ request' = RequestFor(Trim(restaurantName),
                                             Array(UserAllergies(userProfile)))
    /\ UNCHANGED <<showRestaurantLookup, showPictureUpload, restaurantName,
                   selectedFile, formVars, providerVars, route, env, moduleLoaded,
                   legacyVars, clientVars, mount>>

\* Variant: a failed request is sent again
LookupThrows_Retries ==
    /\ pending > 0
    /\ externalCalls' = externalCalls + 1
    /\ lastCaught' = TransportFailure
    /\ UNCHANGED <<pending, error, isProcessing, showRestaurantLookup,
                   showPictureUpload, restaurantName, menuData, showResults,
                   selectedFile, formVars, providerVars, route, env, moduleLoaded,
                   lookups, request, legacyVars, clientVars, mount>>

\* validateAndProceed after its await: the completion call threw
LookupThrows ==
    /\ pending > 0
    /\ pending' = pending - 1
    /\ lastCaught' = TransportFailure
    /\ error' = ErrProcessing
    /\ isProcessing' = FALSE
    /\ UNCHANGED <<showRestaurantLookup, showPictureUpload, restaurantName, menuData,
                   showResults, selectedFile, formVars, providerVars, route, env, moduleLoaded,
                   externalCalls, lookups, request, legacyVars, clientVars, mount>>

\* Variant: a SyntaxError of JSON.parse is swallowed
LookupReturns_SilentParseFailure(text) ==
    LET aiResponse == IF IsFalsy(text) THEN FallbackText ELSE text
        parsed == JSONParse(aiResponse)
    IN  /\ pending > 0
        /\ pending' = pending - 1
        /\ IF parsed.ok
           THEN /\ menuData' = parsed.value
                /\ showResults' = TRUE
                /\ UNCHANGED error
           ELSE UNCHANGED <<error, menuData, showResults>>
        /\ isProcessing' = FALSE
        /\ UNCHANGED <<showRestaurantLookup, showPictureUpload, restaurantName,
                       selectedFile, formVars, providerVars, route, env, moduleLoaded,
                       externalCalls, lookups, lastCaught, request, legacyVars, clientVars, mount>>

\* validateAndProceed after its await: the completion call returned text
LookupReturns(text) ==
    LET aiResponse == IF IsFalsy(text) THEN FallbackText ELSE text
        parsed == JSONParse(aiResponse)
    IN  /\ pending > 0
        /\ pending' = pending - 1
        /\ IF parsed.ok
           THEN /\ menuData' = parsed.value
                /\ showResults' = TRUE
                /\ UNCHANGED error
           ELSE /\ error' = ErrParse
                /\ UNCHANGED <<menuData, showResults>>
        /\ isProcessing' = FALSE
        /\ UNCHANGED <<showRestaurantLookup, showPictureUpload, restaurantName,
                       selectedFile, formVars, providerVars, route, env, moduleLoaded,
                       externalCalls, lookups, lastCaught, request, legacyVars, clientVars, mount>>

-----------------------------------------------------------------------------
(* modules/client.ts: ApiClient.  call is the call in progress: its method, *)
(* the point it has reached, the response status and text, whether the     *)
(* timeout is armed, and the promise the caller holds.                     *)

DEFAULT_TIMEOUT == 30000

NoCall ==
    [method |-> "none", phase |-> "idle", timer |-> FALSE, timeout |-> DEFAULT_TIMEOUT,
     status |-> 0, body |-> NULL, promise |-> "pending", value |-> NULL,
     settles |-> 0, calls |-> 0]

\* {success: true, data}
Success(data) == [success |-> TRUE, data |-> data, error |-> NULL]

\* {success: false, error: {error, message, code}}; code is 0 when absent
Failure(kind, message, code) ==
    [success |-> FALSE, data |-> NULL,
     error |-> [error |-> kind, message |-> message, code |-> code]]

\* response.ok, and xhr.status >= 200 && xhr.status < 300
Ok(status) == status >= 200 /\ status < 300

\* The promise of the call is resolved: only the first settlement counts
Resolve(c, result) ==
    [c EXCEPT !.phase = "settled", !.timer = FALSE,
              !.promise = IF c.promise = "pending" THEN "fulfilled" ELSE c.promise,
              !.value = IF c.promise = "pending" THEN result ELSE c.value,
              !.settles = c.settles + 1]

\* An exception leaves the async function: the promise is rejected
Reject(c, thrown) ==
    [c EXCEPT !.phase = "settled", !.timer = FALSE,
              !.promise = IF c.promise = "pending" THEN "rejected" ELSE c.promise,
              !.value = IF c.promise = "pending" THEN thrown ELSE c.value,
              !.settles = c.settles + 1]

\* get, post, put and delete: request() arms the abort timer and calls fetch
ApiRequest(method) ==
    /\ call.phase \in {"idle", "settled"}
    /\ call.calls < MaxCalls
    /\ call' = [NoCall EXCEPT !.method = method, !.phase = "fetching", !.timer = TRUE,
                              !.calls = call.calls + 1]
    /\ UNCHANGED <<appVars, legacyVars>>

\* fetch resolves with a response: the timer is cleared; a status that is
\* not ok is an HTTP_ERROR whatever the body, otherwise the body is read
FetchResponds(status, body) ==
    /\ call.phase = "fetching"
    /\ LET c == [call EXCEPT !.timer = FALSE, !.status = status, !.body = body]
       IN  call' = IF ~Ok(status)
                   THEN Resolve(c, Failure("HTTP_ERROR", "Request failed with status", status))
                   ELSE [c EXCEPT !.phase = "reading"]
    /\ UNCHANGED <<appVars, legacyVars>>

\* Variant: the body is parsed outside the try block
ResponseJson_Uncaught ==
    /\ call.phase = "reading"
    /\ call' = IF JSONParse(call.body).ok
               THEN Resolve(call, Success(JSONParse(call.body).value))
               ELSE Reject(call, "SyntaxError")
    /\ UNCHANGED <<appVars, legacyVars>>

\* await response.json() of an ok response: the data, or a SyntaxError that
\* the catch block reports as NETWORK_ERROR (its name is not AbortError)
ResponseJson ==
    /\ call.phase = "reading"
    /\ call' = IF JSONParse(call.body).ok
               THEN Resolve(call, Success(JSONParse(call.body).value))
               ELSE Resolve(call, Failure("NETWORK_ERROR", "SyntaxError", 0))
    /\ UNCHANGED <<appVars, legacyVars>>

\* fetch rejects: no connection
FetchRejects ==
    /\ call.phase = "fetching"
    /\ call' = Resolve(call, Failure("NETWORK_ERROR", "Network request failed", 0))
    /\ UNCHANGED <<appVars, legacyVars>>

\* The timer fires before fetch has resolved: controller.abort() makes fetch
\* reject with an AbortError
AbortTimerFires ==
    /\ call.phase = "fetching"
    /\ call.timer
    /\ call' = Resolve(call, Failure("TIMEOUT", "Request timed out", 0))
    /\ UNCHANGED <<appVars, legacyVars>>

\* uploadFile: the request is sent with xhr.timeout set
uploadFile ==
    /\ call.phase \in {"idle", "settled"}
    /\ call.calls < MaxCalls
    /\ call' = [NoCall EXCEPT !.method = "uploadFile", !.phase = "uploading",
                              !.timer = TRUE, !.calls = call.calls + 1]
    /\ UNCHANGED <<appVars, legacyVars>>

\* value.catch is callable: true of a Promise, of no value JSON.parse returns
\* (null, a boolean, a number, a string, an array or a plain object)
HasCatchMethod(parsed) == FALSE

\* JSON.parse(xhr.responseText).catch(() => ({})) throws: a SyntaxError of
\* JSON.parse, or the TypeError of calling a catch that is not a function
ErrorDataThrows(body) ==
    ~JSONParse(body).ok \/ ~HasCatchMethod(JSONParse(body).value)

\* The load handler of the request
XhrLoad(status, body) ==
    /\ call.phase = "uploading"
    /\ LET c == [call EXCEPT !.status = status, !.body = body]
           parseError == Failure("PARSE_ERROR", "Failed to parse response", 0)
       IN  call' =
            IF Ok(status)
            THEN IF JSONParse(body).ok THEN Resolve(c, Success(JSONParse(body).value))
                 ELSE Resolve(c, parseError)
            ELSE IF ErrorDataThrows(body) THEN Resolve(c, parseError)
                 ELSE Resolve(c, Failure("UPLOAD_ERROR", "Upload failed with status", status))
    /\ UNCHANGED <<appVars, legacyVars>>

\* The error handler of the request
XhrError ==
    /\ call.phase = "uploading"
    /\ call' = Resolve(call, Failure("NETWORK_ERROR", "Upload failed due to network error", 0))
    /\ UNCHANGED <<appVars, legacyVars>>

\* The timeout handler of the request
XhrTimeout ==
    /\ call.phase = "uploading"
    /\ call.timer
    /\ call' = Resolve(call, Failure("TIMEOUT", "Upload timed out", 0))
    /\ UNCHANGED <<appVars, legacyVars>>

-----------------------------------------------------------------------------
(* Inputs                                                                  *)

AllergyInputs == {EmptyStr, <<"a">>, <<" ", "a">>, <<"a", "1">>, Peanuts}
NameInputs == {EmptyStr, <<" ", "a", " ">>, <<"a", "1">>}
EmailInputs == {EmptyStr, <<"a", "@", "b", ".", "c">>, <<"a", "@", "b">>}
ContactInputs == {EmptyStr, <<" ", "c", " ">>}
Times == {"t1"}

\* A profile an earlier session stored
StoredProfile ==
    [name |-> <<"a">>, email |-> <<"a", "@", "b", ".", "c">>,
     emergencyContact |-> <<"c">>, allergies |-> <<Peanuts>>, submittedAt |-> "t0"]

Envs == [apiKey : BOOLEAN, endpoint : BOOLEAN]
Configured == [apiKey |-> TRUE, endpoint |-> TRUE]

RestaurantInputs == {EmptyStr, <<" ">>, <<" ", "R", " ">>}

Foods == {[name |-> <<"f">>, safetyClassification |-> c] : c \in SafetyTags \cup {"Safe"}}
FoodLists == UNION {[1..n -> Foods] : n \in 0..MaxFoods}
Menus ==
    {[restaurantName |-> <<"R">>, restaurantInfo |-> <<"i">>, foods |-> fs] :
        fs \in FoodLists}
Pdf == <<"a", "p", "p", "/", "p", "d", "f">>
Png == ImagePrefix \o <<"p", "n", "g">>
Files ==
    {[type |-> Pdf, size |-> 1], [type |-> Png, size |-> 1],
     [type |-> Png, size |-> MaxFileSize + 1]}

\* The allergies argument: absent, or a list of at most MaxAllergies entries
AllergyArgs ==
    {NULL} \cup
    {Array(list) :
        list \in UNION {[1..n -> {Shellfish, Peanuts, <<"a", "b">>}] : n \in 0..MaxAllergies}}

ResponseTexts ==
    {NullContent, EmptyContent, Garbage} \cup {[kind |-> "json", value |-> m] : m \in Menus}

\* What a user may type into an allergy field: letters, spaces, a digit and
\* a symbol
AllergyChars == {"a", "b", " ", "1", "-"}
DigitsAndSymbols == {"1", "-", "@", "."}

\* What a user may type into the email field, and the addresses pasted
EmailChars == {"a", "@", ".", " "}
ABCom == <<"a", "@", "b", ".", "c", "o", "m">>
EmailExamples == {ABCom, <<"a", "b", "c">>, <<"a", "@", "b">>, EmptyStr}

-----------------------------------------------------------------------------
(* Specifications                                                          *)

\* The landing page, loaded in a browser whose storage holds `stored`
InitWith(stored, e) ==
    /\ route = "/"
    /\ userProfile = LoadEffect(stored)
    /\ storage = SaveEffect(LoadEffect(stored))
    /\ formData = FormInitialState(NULL).formData
    /\ allergyFields = FormInitialState(NULL).allergyFields
    /\ formErrors = FormInitialState(NULL).formErrors
    /\ isSubmitting = FALSE
    /\ showRestaurantLookup = FALSE
    /\ showPictureUpload = FALSE
    /\ restaurantName = EmptyStr
    /\ isProcessing = FALSE
    /\ error = NoError
    /\ menuData = NULL
    /\ showResults = FALSE
    /\ selectedFile = NULL
    /\ env = e
    /\ moduleLoaded = FALSE
    /\ pending = 0
    /\ externalCalls = 0
    /\ lookups = 0
    /\ lastCaught = NoError
    /\ request = NULL
    /\ allergies = AllergyFormJsInitialState.allergies
    /\ errors = AllergyFormJsInitialState.errors
    /\ legacyRoute = "/"
    /\ legacyStorage = NULL
    /\ call = NoCall
    /\ mount = Settled

FormEdits(names, emails, contacts, entries) ==
    \/ \E v \in names : handleFormDataChange("name", v)
    \/ \E v \in emails : handleFormDataChange("email", v)
    \/ \E v \in contacts : handleFormDataChange("emergencyContact", v)
    \/ \E id \in FieldIds(allergyFields), v \in entries : handleAllergyChange(id, v)
    \/ addAllergyField
    \/ \E id \in FieldIds(allergyFields) : removeAllergyField(id)

\* The intake form, of a first visit or of a user whose profile is stored,
\* with every input
InitForm ==
    \E stored \in {NULL, JSONStringify(StoredProfile)} : InitWith(stored, Configured)

NextForm ==
    \/ GetProtected
    \/ FormEdits(NameInputs, EmailInputs, ContactInputs, AllergyInputs)
    \/ \E t \in Times : handleSubmit(t)
    \/ SubmitResume

SpecForm == InitForm /\ [][NextForm]_vars

\* The first allergy field of the intake form: the change events of typing
\* a character and of deleting the last one
NextAllergyInput ==
    \/ GetProtected
    \/ \E c \in AllergyChars :
            /\ Len(allergyFields[1].value) < MaxAllergyLen
            /\ handleAllergyChange(1, Append(allergyFields[1].value, c))
    \/ /\ allergyFields[1].value # EmptyStr
       /\ handleAllergyChange(1,
                SubSeq(allergyFields[1].value, 1, Len(allergyFields[1].value) - 1))

SpecAllergyInput == InitWith(NULL, Configured) /\ [][NextAllergyInput]_vars

\* The allergy entry fields of the intake form and of the earlier form
LegacyInputs == {EmptyStr, <<"a">>, <<"a", "1">>, Peanuts}

NextEntries ==
    \/ GetProtected
    \/ \E id \in FieldIds(allergyFields), v \in {EmptyStr, <<"a", "1">>, Peanuts} :
            handleAllergyChange(id, v)
    \/ addAllergyField
    \/ \E id \in FieldIds(allergyFields) : removeAllergyField(id)
    \/ \E index \in 1..Len(allergies), v \in LegacyInputs :
            AllergyFormJs_handleAllergyChange(index, v)
    \/ AllergyFormJs_addAllergyField
    \/ \E index \in 1..Len(allergies) : AllergyFormJs_removeAllergyField(index)

SpecEntries == InitWith(NULL, Configured) /\ [][NextEntries]_vars

\* The profile context: the intake form, its one caller of setUserProfile,
\* and the operations the context offers to its other consumers
AllergyLists == {<<>>, <<Peanuts>>, <<Peanuts, <<"a", "b">>>>}

NextProfile ==
    \/ GetProtected
    \/ FormEdits({<<" ", "a", " ">>}, {<<"a", "@", "b", ".", "c">>}, {EmptyStr},
                 {EmptyStr, <<" ", "a">>, Peanuts})
    \/ \E t \in Times : handleSubmit(t)
    \/ SubmitResume
    \/ setUserProfile(StoredProfile)
    \/ \E list \in AllergyLists, t \in Times : updateAllergies(list, t)
    \/ clearProfile

SpecProfile == InitWith(NULL, Configured) /\ [][NextProfile]_vars

\* The email field of the intake form: the change events of typing a
\* character, deleting the last one and pasting an address
NextEmailInput ==
    \/ GetProtected
    \/ \E c \in EmailChars :
            /\ Len(formData.email) < MaxEmailLen
            /\ handleFormDataChange("email", Append(formData.email, c))
    \/ /\ formData.email # EmptyStr
       /\ handleFormDataChange("email",
                SubSeq(formData.email, 1, Len(formData.email) - 1))
    \/ \E v \in EmailExamples : handleFormDataChange("email", v)

SpecEmailInput == InitWith(NULL, Configured) /\ [][NextEmailInput]_vars

\* The dashboard of a user whose profile is stored
InitLookup == \E e \in Envs : InitWith(JSONStringify(StoredProfile), e)

NextLookup ==
    \/ PageLoad("/dashboard")
    \/ \E c \in {"restaurant-lookup", "take-upload-picture", "update-allergies"} :
            handleCardClick(c)
    \/ \E v \in RestaurantInputs : handleTextInputChange(v)
    \/ goBackToDashboard
    \/ goBackFromPictureUpload
    \/ \E file \in Files : handleFileSelect(file)
    \/ RemoveSelectedFile
    \/ AnalyzePicture
    \/ validateAndProceed
    \/ LookupThrows
    \/ \E text \in ResponseTexts : LookupReturns(text)

SpecLookup == InitLookup /\ [][NextLookup]_vars

\* The ApiClient: calls made one after the other, with every outcome of the
\* network
Statuses == {200, 404, 500}
ApiBodies ==
    {[kind |-> "json", value |-> [id |-> "1"]],
     [kind |-> "json", value |-> [message |-> "m"]], Garbage, EmptyContent}

NextClient ==
    \/ \E method \in {"get", "post", "put", "delete"} : ApiRequest(method)
    \/ \E status \in Statuses, body \in ApiBodies : FetchResponds(status, body)
    \/ ResponseJson
    \/ FetchRejects
    \/ AbortTimerFires
    \/ uploadFile
    \/ \E status \in Statuses, body \in ApiBodies : XhrLoad(status, body)
    \/ XhrError
    \/ XhrTimeout

SpecClient == InitWith(NULL, Configured) /\ [][NextClient]_vars

\* The two pages of App.js: the form, its submission and the way back
NextLegacy ==
    \/ \E index \in 1..Len(allergies), v \in LegacyInputs :
            AllergyFormJs_handleAllergyChange(index, v)
    \/ AllergyFormJs_addAllergyField
    \/ \E index \in 1..Len(allergies) : AllergyFormJs_removeAllergyField(index)
    \/ AllergyFormJs_handleSubmit
    \/ OptionsPage_goBack

SpecLegacy == InitWith(NULL, Configured) /\ [][NextLegacy]_vars

\* The provider: mounts taken effect by effect, and between them the three
\* operations of the context
MountNames == {<<"a">>, <<"b">>, <<"c">>}
MountTimes == {"t1", "t2"}
MountProfiles ==
    {[StoredProfile EXCEPT !.name = n, !.allergies = list] :
        n \in MountNames, list \in AllergyLists}

NextMount ==
    \/ ProviderMount
    \/ ProviderLoadEffect
    \/ ProviderSaveEffect
    \/ ProviderRerender
    \/ (mount.phase = "settled" /\ \E profile \in MountProfiles : setUserProfile(profile))
    \/ (mount.phase = "settled" /\
            \E list \in AllergyLists, t \in MountTimes : updateAllergies(list, t))
    \/ (mount.phase = "settled" /\ clearProfile)

SpecMount ==
    (\E stored \in {NULL, JSONStringify(StoredProfile)} : InitWith(stored, Configured))
        /\ [][NextMount]_vars

\* The requests of the module: the lookups of the dashboard and the calls of
\* any other caller, with every allergies argument
NextRequest ==
    \/ PageLoad("/dashboard")
    \/ handleCardClick("restaurant-lookup")
    \/ \E v \in RestaurantInputs : handleTextInputChange(v)
    \/ validateAndProceed
    \/ LookupThrows
    \/ \E text \in {NullContent, Garbage} : LookupReturns(text)
    \/ \E name \in {<<"R">>}, arg \in AllergyArgs :
            getSafeFoodsByRestaurantName(name, arg)

SpecRequest == InitLookup /\ [][NextRequest]_vars

\* The whole application, with one input of each kind
Init == \E stored \in {NULL, JSONStringify(StoredProfile)} : InitWith(stored, Configured)

Next ==
    \/ \E r \in Routes : PageLoad(r)
    \/ GetProtected
    \/ FormEdits({<<" ", "a", " ">>}, {<<"a", "@", "b", ".", "c">>}, {EmptyStr},
                 {EmptyStr, <<" ", "a", "b">>})
    \/ \E t \in Times : handleSubmit(t)
    \/ SubmitResume
    \/ \E c \in {"restaurant-lookup", "take-upload-picture", "update-allergies"} :
            handleCardClick(c)
    \/ \E v \in {<<"R">>} : handleTextInputChange(v)
    \/ goBackToDashboard
    \/ goBackFromPictureUpload
    \/ \E file \in Files : handleFileSelect(file)
    \/ RemoveSelectedFile
    \/ AnalyzePicture
    \/ validateAndProceed
    \/ LookupThrows
    \/ \E text \in {NullContent, Garbage} : LookupReturns(text)

Spec == Init /\ [][Next]_vars

-----------------------------------------------------------------------------
(* Properties of the intake form (SpecForm)                                *)

Submits == \E t \in Times : handleSubmit(t)

FieldValues(fields) == [i \in 1..Len(fields) |-> fields[i].value]

\* An entry that is non-blank and passes re-validation
EntryOk(value) == Trim(value) # EmptyStr /\ validateAllergyInput(value) = NoError

\* Name, email and every allergy entry re-validate without error, and at
\* least one entry is non-empty and error-free
AllRevalidate ==
    /\ validateName(formData.name) = NoError
    /\ validateEmail(formData.email) = NoError
    /\ \A i \in 1..Len(allergyFields) :
            validateAllergyInput(allergyFields[i].value) = NoError
    /\ \E i \in 1..Len(allergyFields) : EntryOk(allergyFields[i].value)

\* C1: submitting a valid name and email with the entries "Peanuts" and a
\* blank one succeeds and stores a profile whose allergies are ["Peanuts"].
C1_BlankEntryExcluded ==
    [][(/\ Submits
        /\ validateName(formData.name) = NoError
        /\ validateEmail(formData.email) = NoError
        /\ FieldValues(allergyFields) = <<Peanuts, EmptyStr>>)
       => (/\ userProfile' # NULL
           /\ userProfile'.allergies = <<Peanuts>>)]_vars

\* C2: every allergy of the stored profile is non-empty, consists of letters
\* and spaces only and has at least 2 characters, and there is at least one.
C2_StoredAllergiesWellFormed ==
    userProfile # NULL =>
        /\ Len(userProfile.allergies) >= 1
        /\ \A i \in 1..Len(userProfile.allergies) :
            /\ LettersAndSpacesOnly(userProfile.allergies[i])
            /\ Len(userProfile.allergies[i]) >= 2

\* C7: a submission with no entry that is both non-blank and error-free sets
\* the allergies-scoped error and stores no profile.
C7_NoValidAllergyRejected ==
    [][(/\ Submits
        /\ ~\E i \in 1..Len(allergyFields) : EntryOk(allergyFields[i].value))
       => (/\ formErrors'.allergies = ErrNoAllergy
           /\ UNCHANGED <<userProfile, storage>>)]_vars

C7_Witness ==
    /\ FormMounted
    /\ formErrors.allergies = ErrNoAllergy
    /\ userProfile = NULL
    /\ \A i \in 1..Len(allergyFields) :
        /\ ~EntryOk(allergyFields[i].value)
        /\ allergyFields[i].error = validateAllergyInput(allergyFields[i].value)

\* C8: a step stores a profile only if name, email and every allergy entry
\* re-validate without error and at least one entry is non-empty and error-free.
C8_StoredOnlyIfAllValid ==
    [][(userProfile' # userProfile \/ storage' # storage) => AllRevalidate]_vars

C8_Witness ==
    /\ userProfile # NULL
    /\ storage = JSONStringify(userProfile)
    /\ isSubmitting
    /\ Len(allergyFields) = 2

\* The trimmed values of the valid non-empty entries, in their order
TrimmedValidEntries(fields) ==
    LET kept == SelectSeq(fields, LAMBDA field : EntryOk(field.value))
    IN  [i \in 1..Len(kept) |-> Trim(kept[i].value)]

\* C9: a stored profile carries the trimmed name, email and emergency contact
\* and the trimmed values of the valid non-empty entries in their order.
C9_ProfileIsTrimmedInput ==
    [][(userProfile' # userProfile) =>
        (/\ userProfile' # NULL
         /\ userProfile'.name = Trim(formData.name)
         /\ userProfile'.email = Trim(formData.email)
         /\ userProfile'.emergencyContact = Trim(formData.emergencyContact)
         /\ userProfile'.allergies = TrimmedValidEntries(allergyFields))]_vars

C9_Witness ==
    /\ userProfile # NULL
    /\ isSubmitting
    /\ formData.name # Trim(formData.name)
    /\ userProfile.name = Trim(formData.name)
    /\ formData.emergencyContact # Trim(formData.emergencyContact)
    /\ userProfile.emergencyContact = Trim(formData.emergencyContact)
    /\ userProfile.allergies = <<Peanuts, <<"a">>>>
    /\ FieldValues(allergyFields) = <<Peanuts, <<" ", "a">>>>

\* C10: a rejected submission changes neither the profile in memory nor the
\* storage entry nor the route; it updates the errors only and leaves the
\* form in editing, with isSubmitting false.
C10_RejectedSubmissionNoSideEffects ==
    [][(Submits /\ ~AllRevalidate) =>
        (/\ UNCHANGED <<userProfile, storage, route, formData, dashVars, aiVars>>
         /\ FieldValues(allergyFields') = FieldValues(allergyFields)
         /\ isSubmitting' = FALSE
         /\ FormMounted')]_vars

C10_Witness ==
    /\ FormMounted
    /\ ~isSubmitting
    /\ formErrors.allergies = ErrNoAllergy
    /\ formErrors.name = ErrLettersOnly
    /\ formData.email = <<"a", "@", "b", ".", "c">>
    /\ userProfile = StoredProfile
    /\ storage = JSONStringify(StoredProfile)

-----------------------------------------------------------------------------
(* Properties of the restaurant lookup (SpecLookup)                        *)

\* C3: a response with a food whose safetyClassification is none of the three
\* tags ends in the error state: it is never rendered as a result.
C3_UnknownClassificationIsError ==
    (showResults /\ menuData # NULL) =>
        \A i \in 1..Len(menuData.foods) :
            menuData.foods[i].safetyClassification \in SafetyTags

\* C4: the requests sent to the completion service are exactly the lookups
\* started with a non-empty trimmed restaurant name, one request per lookup.
C4_OneCallPerLookup == externalCalls = lookups

\* C5: with the API key or the endpoint missing, a lookup sends no request and
\* its failure is reported as a missing configuration: the message shown is
\* neither the one of a failed request (ErrProcessing) nor the one of an
\* unparsable response (ErrParse).
C5_MissingConfigReported ==
    [][(/\ validateAndProceed
        /\ Trim(restaurantName) # EmptyStr
        /\ ConfigError(env) # NoError)
       => (/\ externalCalls' = externalCalls
           /\ pending' = 0
           /\ error' \notin {NoError, ErrProcessing, ErrParse})]_vars

\* C16: a lookup whose restaurant name is empty after trimming is rejected
\* with an error, sends no request, shows no results and leaves isProcessing
\* false.
C16_EmptyNameRejected ==
    [][(validateAndProceed /\ Trim(restaurantName) = EmptyStr)
        => (/\ error' # NoError
            /\ externalCalls' = externalCalls
            /\ pending' = 0
            /\ menuData' = NULL
            /\ ~showResults'
            /\ ~isProcessing')]_vars

C16_Witness ==
    /\ DashMounted
    /\ showRestaurantLookup
    /\ restaurantName = <<" ">>
    /\ error = ErrEnterName
    /\ ~isProcessing
    /\ pending = 0
    /\ lookups = 0

\* C18: a response text that JSON.parse rejects leaves the lookup in the
\* error state: an error is set, menuData is null, no results are shown, and
\* the outer catch of validateAndProceed is not reached.
C18_UnparsableResponseIsError ==
    [][\A text \in ResponseTexts :
        (LookupReturns(text) /\ ~IsFalsy(text) /\ ~JSONParse(text).ok)
        => (/\ error' # NoError
            /\ menuData' = NULL
            /\ ~showResults'
            /\ ~isProcessing'
            /\ lastCaught' = lastCaught)]_vars

C18_Witness ==
    /\ DashMounted
    /\ showRestaurantLookup
    /\ error = ErrParse
    /\ menuData = NULL
    /\ ~showResults
    /\ ~isProcessing
    /\ lookups >= 1

\* C19: a null or empty response text ends either in the error state or in
\* the fallback: the results are shown with restaurantName "" and no foods,
\* and no error is set.
C19_EmptyPayloadErrorOrFallback ==
    [][\A text \in {NullContent, EmptyContent} : LookupReturns(text) =>
        \/ (error' # NoError /\ menuData' = NULL /\ ~showResults')
        \/ (/\ error' = NoError
            /\ showResults'
            /\ menuData' = [restaurantName |-> EmptyStr, foods |-> <<>>])]_vars

\* C20: a request that throws ends the lookup in the error state, with a
\* message and no results, and nothing is sent again: a request goes out
\* only when the user starts a lookup.
C20_FailureNoRetry ==
    [][/\ LookupThrows
            => (/\ error' # NoError
                /\ menuData' = NULL
                /\ ~showResults'
                /\ ~isProcessing'
                /\ pending' = 0
                /\ externalCalls' = externalCalls)
       /\ (pending' > pending) => validateAndProceed]_vars

C20_Witness ==
    /\ DashMounted
    /\ showRestaurantLookup
    /\ lastCaught = TransportFailure
    /\ error = ErrProcessing
    /\ menuData = NULL
    /\ ~showResults
    /\ ~isProcessing
    /\ pending = 0

\* C21: at most one lookup request of the dashboard is in flight at any
\* time, and while one is in flight isProcessing is true, which disables the
\* button that starts a lookup.
C21_AtMostOneInFlight ==
    /\ pending <= 1
    /\ pending > 0 => isProcessing

C21_Witness ==
    /\ DashMounted
    /\ pending = 1
    /\ isProcessing
    /\ showRestaurantLookup
    /\ restaurantName = EmptyStr
    /\ lookups = 1

-----------------------------------------------------------------------------
(* Properties of the request (SpecRequest)                                 *)

\* Where the i-th entry starts in the joined text: after the entries before
\* it and their separators
EntryOffsets(list) ==
    LET off[i \in 1..Len(list)] ==
            IF i = 1 THEN 0 ELSE off[i - 1] + Len(list[i - 1]) + Len(CommaSpace)
    IN  off

\* text is the entries of list in their order with ", " between neighbours
IsCommaSeparated(text, list) ==
    LET off == EntryOffsets(list)
        n == Len(list)
    IN  /\ Len(text) = off[n] + Len(list[n])
        /\ \A i \in 1..n :
                SubSeq(text, off[i] + 1, off[i] + Len(list[i])) = list[i]
        /\ \A i \in 1..(n - 1) :
                SubSeq(text, off[i] + Len(list[i]) + 1, off[i + 1]) = CommaSpace

\* C17: the allergy text of a request is the list joined with ", " when the
\* list is non-empty (["shellfish"] gives "shellfish") and the literal
\* "no specific allergies mentioned" when the list is empty or absent.
C17_AllergyTextOfRequest ==
    request # NULL =>
        /\ (request.allergies = NULL \/ request.allergies = Array(<<>>))
                => request.allergiesList = NoAllergiesText
        /\ (request.allergies # NULL /\ request.allergies # Array(<<>>))
                => IsCommaSeparated(request.allergiesList, request.allergies.items)
        /\ request.allergies = Array(<<Shellfish>>)
                => request.allergiesList = Shellfish

C17_Witness ==
    /\ request # NULL
    /\ request.allergies = Array(<<Shellfish>>)
    /\ request.allergiesList = Shellfish
    /\ externalCalls >= 2

-----------------------------------------------------------------------------
(* Properties of the navigation (Spec)                                     *)

\* C6: whenever the form is opened while a profile exists, its name, email,
\* emergency contact and allergy fields hold the values of that profile.
C6_FormPrepopulated ==
    [][(route # "/allergyForm" /\ route' = "/allergyForm" /\ userProfile # NULL)
       => (/\ formData'.name = userProfile.name
           /\ formData'.email = userProfile.email
           /\ formData'.emergencyContact = userProfile.emergencyContact
           /\ FieldValues(allergyFields') = userProfile.allergies)]_vars

-----------------------------------------------------------------------------
(* Properties of validateAllergyInput (SpecAllergyInput)                   *)

HasDigitOrSymbol(value) == \E i \in 1..Len(value) : value[i] \in DigitsAndSymbols

\* C11: a text of letters and spaces only with at least 2 characters gets no
\* error; a text with a digit or a symbol gets an error.
C11_LettersAndSpacesAccepted ==
    [][(allergyFields' # allergyFields) =>
        LET v == allergyFields'[1].value
            e == allergyFields'[1].error
        IN  /\ (LettersAndSpacesOnly(v) /\ Len(v) >= 2) => e = NoError
            /\ HasDigitOrSymbol(v) => e # NoError]_vars

\* C11 (amended): a text of letters and spaces only with at least 2
\* characters, not all of them spaces, gets no error; a text with a digit or
\* a symbol gets an error.
C11_NonBlankLettersAndSpacesAccepted ==
    [][(allergyFields' # allergyFields) =>
        LET v == allergyFields'[1].value
            e == allergyFields'[1].error
        IN  /\ (LettersAndSpacesOnly(v) /\ Len(v) >= 2 /\ Trim(v) # EmptyStr)
                    => e = NoError
            /\ HasDigitOrSymbol(v) => e # NoError]_vars

C11_Witness ==
    /\ FormMounted
    /\ allergyFields[1] = [value |-> <<"a", " ", "b">>, error |-> NoError]

\* C12: a text that is empty, has a character other than letters and spaces
\* or has fewer than 2 characters after trimming gets an error.
C12_ShortAfterTrimRejected ==
    [][(allergyFields' # allergyFields) =>
        LET v == allergyFields'[1].value
            e == allergyFields'[1].error
        IN  (v = EmptyStr \/ ~LettersAndSpacesOnly(v) \/ Len(Trim(v)) < 2)
                => e # NoError]_vars

-----------------------------------------------------------------------------
(* Properties of validateEmail (SpecEmailInput)                            *)

\* A text without whitespace and without '@'
NoSpaceOrAt(s) == \A k \in 1..Len(s) : s[k] \notin Whitespace \cup {"@"}

\* local@domain.tld: three non-empty parts without whitespace and without
\* '@', joined by the one '@' and by a '.' of the part after it
HasEmailShape(value) ==
    \E i \in 1..Len(value), j \in 1..Len(value) :
        LET local == SubSeq(value, 1, i - 1)
            domain == SubSeq(value, i + 1, j - 1)
            tld == SubSeq(value, j + 1, Len(value))
        IN  /\ i < j
            /\ value[i] = "@"
            /\ value[j] = "."
            /\ local # EmptyStr /\ domain # EmptyStr /\ tld # EmptyStr
            /\ NoSpaceOrAt(local) /\ NoSpaceOrAt(domain) /\ NoSpaceOrAt(tld)

\* C13: a change of the email field leaves no error exactly when the text
\* has the shape local@domain.tld; "a@b.com" is accepted and "abc", "a@b"
\* and the empty text are rejected.
C13_EmailShapeAccepted ==
    [][(formErrors'.email # formErrors.email \/ formData'.email # formData.email)
        => /\ formErrors'.email = NoError <=> HasEmailShape(formData'.email)
           /\ formData'.email = ABCom => formErrors'.email = NoError
           /\ formData'.email \in EmailExamples \ {ABCom}
                => formErrors'.email # NoError]_vars

C13_Witness ==
    /\ FormMounted
    /\ formData.email = ABCom
    /\ formErrors.email = NoError

-----------------------------------------------------------------------------
(* Properties of the allergy entry fields (SpecEntries)                    *)

\* C14: both forms always hold at least one allergy entry field, and
\* removing the entry of a single-entry list leaves the list as it is.
C14_AtLeastOneEntry ==
    /\ [](Len(allergyFields) >= 1 /\ Len(allergies) >= 1)
    /\ [][((Len(allergyFields) = 1 /\ removeAllergyField(1))
                => allergyFields' = allergyFields)
           /\ ((Len(allergies) = 1 /\ AllergyFormJs_removeAllergyField(1))
                => allergies' = allergies)]_vars

C14_Witness ==
    /\ FormMounted
    /\ allergyFields = <<[value |-> Peanuts, error |-> NoError]>>
    /\ allergies = <<Peanuts>>
    /\ Len(errors) = 1

-----------------------------------------------------------------------------
(* Properties of the profile context (SpecProfile)                         *)

\* An allergy entry as the profile is to hold it: non-empty, letters and
\* spaces only, at least 2 characters
WellFormedEntry(entry) == LettersAndSpacesOnly(entry) /\ Len(entry) >= 2

-----------------------------------------------------------------------------
(* Properties of the ApiClient (SpecClient)                                *)

ErrorKinds == {"HTTP_ERROR", "NETWORK_ERROR", "TIMEOUT", "UPLOAD_ERROR", "PARSE_ERROR"}

\* {success: true, data} or {success: false, error}
IsApiResponse(v) ==
    /\ v # NULL
    /\ v.success \in BOOLEAN
    /\ IF v.success THEN v.error = NULL
       ELSE v.data = NULL /\ v.error # NULL /\ v.error.error \in ErrorKinds

C29_NonOkUploadIsUploadError ==
    [][(call.phase = "uploading" /\ call'.phase = "settled" /\ call'.status # 0) =>
        /\ ~Ok(call'.status) =>
            (/\ ~call'.value.success
             /\ call'.value.error.error = "UPLOAD_ERROR"
             /\ call'.value.error.code = call'.status)
        /\ (~call'.value.success /\ call'.value.error.error = "PARSE_ERROR") =>
            (Ok(call'.status) /\ ~JSONParse(call'.body).ok)]_vars

-----------------------------------------------------------------------------
(* Properties of the two pages of App.js (SpecLegacy)                      *)

\* C23: after a submission, going back from the options page shows the form
\* with the allergies that were entered.
C23_AllergiesKeptOnGoBack ==
    [][(legacyRoute = "/options" /\ legacyRoute' = "/") =>
        validAllergies(allergies') = OptionsPageAllergies]_vars

-----------------------------------------------------------------------------
(* Properties of the provider (SpecProfile, SpecMount)                     *)

C26_MountKeepsStoredProfile ==
    [][(/\ mount.phase # "settled"
        /\ mount'.phase = "settled"
        /\ mount.stored # NULL) =>
            (/\ userProfile' = JSONParse(mount.stored).value
             /\ userProfile' # NULL
             /\ storage' = mount.stored)]_vars

\* a mount has removed the entry and then written it again
C26_Witness ==
    /\ mount.phase = "rerendered"
    /\ mount.stored # NULL
    /\ storage = NULL
    /\ userProfile = JSONParse(mount.stored).value
    /\ userProfile.name = <<"b">>

-----------------------------------------------------------------------------
(* Properties of the pages (Spec)                                          *)

\* C27: with a profile stored that has at least one allergy, opening the
\* menu-input page does not end on the allergy form.
C27_NoRedirectWithStoredAllergies ==
    [][(/\ Len(UserAllergies(LoadEffect(storage))) > 0
        /\ PageLoad("/menuInput")) => route' = "/menuInput"]_vars

-----------------------------------------------------------------------------
(* Properties of the lookup (SpecLookup), continued                        *)

Rendered == showResults /\ menuData # NULL /\ error = NoError
Errored == error # NoError /\ menuData = NULL /\ ~showResults

\* C24: a lookup ends, when its call returns or throws, with isProcessing
\* false and either rendered (results shown, menuData set, no error) or
\* errored (error set, no menuData, no results); and a lookup that starts has
\* no results and no error of an earlier one.
C24_LookupEndsRenderedOrErrored ==
    [][/\ (LookupThrows \/ \E text \in ResponseTexts : LookupReturns(text)) =>
            (/\ ~isProcessing'
             /\ (Rendered' \/ Errored')
             /\ ~(Rendered' /\ Errored'))
       /\ (validateAndProceed /\ isProcessing') =>
            (error' = NoError /\ menuData' = NULL /\ ~showResults')]_vars

\* C28: once the lookup panel is closed and reset, menuData stays null and
\* no results are shown until a lookup is started, also when a request was
\* in flight at the close.
C28_ClosedPanelStaysReset ==
    [][(/\ ~showRestaurantLookup
        /\ menuData = NULL
        /\ ~showResults
        /\ ~validateAndProceed) => (menuData' = NULL /\ ~showResults')]_vars

\* C30: the restaurant lookup panel and the picture panel are never open
\* together.
C30_OnePanelOpen == ~(showRestaurantLookup /\ showPictureUpload)

\* the picture panel has been opened while the lookup panel was open
C30_Witness ==
    /\ DashMounted
    /\ showPictureUpload
    /\ ~showRestaurantLookup
    /\ pending = 1
    /\ selectedFile # NULL

====
